---- MODULE Spec2Model ----
(***************************************************************************)
(* The event fan-out bus of mixer-console (event-bus.js) together with the *)
(* gateway's termination handler, modelled as a state machine.             *)
(*                                                                         *)
(* Every gateway process ("instance") owns one module-level bus: a local   *)
(* PubSub, the references kafkaProducer / kafkaConsumer and the flag       *)
(* kafkaConsumerStarted.  Instances share one Kafka topic.  Each `await`   *)
(* of the source is a position of the corresponding handler; the code      *)
(* between two awaits runs as one atomic step (Node.js run-to-completion). *)
(***************************************************************************)
EXTENDS Integers, Sequences, FiniteSets, TLC

\* ------------------------------------------------------------------ bounds
MaxCalls == 2
MaxStarts == 1
MaxShutdowns == 1

\* ------------------------------------------------------------ value space
Instances == {"A", "B"}
Subscribers == {"s1", "s2"}
SubscriberOrder == [s \in Subscribers |-> IF s = "s1" THEN 1 ELSE 2]
Null == <<>>
NoInstance == "none"
Undefined == "<undefined>"
Unserializable == "<bigint>"
IN_MEMORY_TOPIC == "QUEUE_UPDATED"

Fields == <<"type", "songId", "timestamp", "user">>

\* The keys of the event that carries the refetched queue, in the order the
\* handler writes them.
SnapshotFields == <<"type", "queue", "timestamp", "songId", "user">>

\* The keys of a payload in insertion order.
KeysOf(obj) == IF "queue" \in DOMAIN obj THEN SnapshotFields ELSE Fields

Mutations == {"queueSong", "upvoteSong", "downvoteSong"}

\* Event payloads as the mutation handlers build them, one with an unset
\* user and one carrying a value JSON cannot serialize.
EventQueued == [type |-> "SONG_QUEUED", songId |-> "song-1", timestamp |-> "t", user |-> "anonymous"]
EventUpvoted == [type |-> "SONG_UPVOTED", songId |-> "song-7", timestamp |-> "t", user |-> Undefined]
EventUnserializable == [type |-> "SONG_QUEUED", songId |-> "song-1", timestamp |-> "t", user |-> Unserializable]

Environments ==
    [KAFKA_ENABLE : {"true", "false"},
     KAFKA_BROKERS : {Undefined, "broker:9092"},
     KAFKA_CLIENT_ID : {Undefined, "gw-1", "gw-2"}]

\* ------------------------------------------------------------------ state
VARIABLES
    live,                  \* the gateway processes of this deployment
    budget,                \* how many calls of each operation a run explores
    env,                   \* process.env of each instance
    kafkaProducer,         \* module variable: connection id or Null
    kafkaConsumer,         \* module variable: connection id or Null
    kafkaConsumerStarted,  \* module variable
    startPc,               \* position of initializeKafka
    startInfo,             \* outcome of the calls of start(), with counters
    shutdownPc,            \* position of eventBus.shutdown
    shutdownInfo,          \* counters and outcome of the calls of shutdown()
    handler,               \* position of the SIGINT/SIGTERM handler
    conns,                 \* every broker connection ever opened
    subs,                  \* the local PubSub's subscribers and their queues
    calls,                 \* the calls of publishQueueUpdate
    topic,                 \* the broker topic's log
    offsets,               \* consumed position of every consumer group
    requests               \* the mutation requests the gateway has handled

vars == <<live, budget, env, kafkaProducer, kafkaConsumer, kafkaConsumerStarted,
          startPc, startInfo, shutdownPc, shutdownInfo, handler, conns,
          subs, calls, topic, offsets, requests>>

busVars == <<kafkaProducer, kafkaConsumer, kafkaConsumerStarted>>

\* ---------------------------------------------------------------- helpers
\* Reading a property of a JavaScript object: a missing key reads undefined.
Get(obj, k) == IF k \in DOMAIN obj THEN obj[k] ELSE Undefined

\* A switch that looks at the enable flag only.
useKafkaFlagOnly(i) == env[i].KAFKA_ENABLE = "true"

\* const useKafka = KAFKA_ENABLE === 'true' && KAFKA_BROKERS;
useKafka(i) == env[i].KAFKA_ENABLE = "true" /\ env[i].KAFKA_BROKERS # Undefined

\* groupId: `${KAFKA_CLIENT_ID}-group`; an unset identity prints as "undefined".
GroupIdOf(clientId) ==
    IF clientId = Undefined THEN <<"undefined", "-group">> ELSE <<clientId, "-group">>

GroupId(i) == GroupIdOf(env[i].KAFKA_CLIENT_ID)

GroupIds == { GroupIdOf(id) : id \in {Undefined, "gw-1", "gw-2"} }

\* JSON.stringify(eventPayload): keys in insertion order, keys whose value is
\* undefined are dropped, a BigInt value raises TypeError.
Thrown == [kind |-> "throw", pairs |-> <<>>]

RECURSIVE PairsOf(_, _)
PairsOf(obj, n) ==
    IF n = 0 THEN <<>>
    ELSE LET k == KeysOf(obj)[n]
             rest == PairsOf(obj, n - 1)
         IN IF k \in DOMAIN obj /\ obj[k] # Undefined
            THEN Append(rest, <<k, obj[k]>>)
            ELSE rest

JSONstringify(obj) ==
    IF \E k \in DOMAIN obj : obj[k] = Unserializable
    THEN Thrown
    ELSE [kind |-> "object", pairs |-> PairsOf(obj, Len(KeysOf(obj)))]

\* Message values that no publishQueueUpdate wrote: text that is not JSON,
\* a message without value (message.value is null), the JSON text `null`
\* and the JSON text of a number.
Garbage == [kind |-> "garbage", pairs |-> <<>>]
NoValue == [kind |-> "novalue", pairs |-> <<>>]
NullText == [kind |-> "null", pairs |-> <<>>]
NumberText == [kind |-> "number", pairs |-> <<>>]

\* The JavaScript number a NumberText parses to: a value without any of the
\* keys of an event, so that every property of it reads undefined.
NumberValue == [number |-> "42"]

\* JSON.parse(message.value.toString()): an object with exactly the keys of
\* the text, null, or a number; text that is not JSON raises SyntaxError.
JSONparse(text) ==
    IF text.kind = "object"
    THEN LET keys == { text.pairs[n][1] : n \in DOMAIN text.pairs }
         IN [ok |-> TRUE, kind |-> "object",
             value |-> [k \in keys |->
                          LET n == CHOOSE m \in DOMAIN text.pairs : text.pairs[m][1] = k
                          IN text.pairs[n][2]]]
    ELSE IF text.kind = "number" THEN [ok |-> TRUE, kind |-> "number", value |-> NumberValue]
    ELSE IF text.kind = "null" THEN [ok |-> TRUE, kind |-> "null", value |-> <<>>]
    ELSE [ok |-> FALSE, kind |-> "none", value |-> <<>>]

\* A process still runs until its termination handler has ended it.
Alive(i) == i \in live /\ handler[i] \notin {"exited", "rejected"}

\* A consumer path that marks what it re-injects.
PubsubPublishTagged(S, i, payload, call, via) ==
    [s \in Subscribers |->
        IF S[s].status = "active" /\ S[s].inst = i
        THEN [S[s] EXCEPT !.queue =
                 Append(@, [trigger |-> IN_MEMORY_TOPIC,
                            envelope |-> IF via = "consumer"
                                         THEN [queueUpdated |-> payload, remote |-> "true"]
                                         ELSE [queueUpdated |-> payload],
                            call |-> call, via |-> via])]
        ELSE S[s]]

\* A PubSub that keeps the iterators whose return() was called.
PubsubPublishToAll(S, i, payload, call, via) ==
    [s \in Subscribers |->
        IF S[s].status # "none" /\ S[s].inst = i
        THEN [S[s] EXCEPT !.queue =
                 Append(@, [trigger |-> IN_MEMORY_TOPIC,
                            envelope |-> [queueUpdated |-> payload],
                            call |-> call, via |-> via])]
        ELSE S[s]]

\* A PubSub that puts a new element at the head of the queue of every other
\* subscriber.
PubsubPublishUnordered(S, i, payload, call, via) ==
    [s \in Subscribers |->
        IF S[s].status = "active" /\ S[s].inst = i
        THEN LET element == [trigger |-> IN_MEMORY_TOPIC,
                             envelope |-> [queueUpdated |-> payload],
                             call |-> call, via |-> via]
             IN [S[s] EXCEPT !.queue = IF SubscriberOrder[s] = 2
                                       THEN <<element>> \o @
                                       ELSE Append(@, element)]
        ELSE S[s]]

\* pubsub.publish(IN_MEMORY_TOPIC, { queueUpdated: payload }): the envelope is
\* pushed on the queue of every iterator registered on this instance's PubSub.
\* `call` and `via` are history marks of the delivery, not part of the envelope.
PubsubPublish(S, i, payload, call, via) ==
    [s \in Subscribers |->
        IF S[s].status = "active" /\ S[s].inst = i
        THEN [S[s] EXCEPT !.queue =
                 Append(@, [trigger |-> IN_MEMORY_TOPIC,
                            envelope |-> [queueUpdated |-> payload],
                            call |-> call, via |-> via])]
        ELSE S[s]]

ActiveSubs(i) == { s \in Subscribers : subs[s].status = "active" /\ subs[s].inst = i }

\* The subscribers of the other instances whose bridge is up.
RemoteSubs(i) ==
    { s \in Subscribers : /\ subs[s].status = "active"
                          /\ subs[s].inst # i
                          /\ startInfo[subs[s].inst].result = "connected" }

ProducerId(i) == <<i, "producer", startInfo[i].count>>
ConsumerId(i) == <<i, "consumer", startInfo[i].count>>

\* connection.disconnect() is called: `disconnects` counts the calls and
\* `released` those made on a connection that was already closed.
Disconnect(C, k) ==
    [C EXCEPT ![k].disconnects = @ + 1,
              ![k].released = IF C[k].state = "closed" THEN @ + 1 ELSE @]

NewConn(i, kind) ==
    [inst |-> i, kind |-> kind, state |-> "connecting", running |-> FALSE,
     disconnects |-> 0, released |-> 0]

\* ------------------------------------------------------------------- init
InitBus ==
    /\ kafkaProducer = [i \in Instances |-> Null]
    /\ kafkaConsumer = [i \in Instances |-> Null]
    /\ kafkaConsumerStarted = [i \in Instances |-> FALSE]
    /\ startPc = [i \in Instances |-> "idle"]
    /\ startInfo = [i \in Instances |-> [count |-> 0, result |-> "none", failedAt |-> "none"]]
    /\ shutdownPc = [i \in Instances |-> "idle"]
    /\ shutdownInfo = [i \in Instances |->
                         [count |-> 0, result |-> "none", caller |-> "none", target |-> Null,
                          failedAt |-> "none", startResult |-> "none"]]
    /\ handler = [i \in Instances |-> "unregistered"]
    /\ conns = <<>>
    /\ subs = [s \in Subscribers |-> [inst |-> NoInstance, status |-> "none", queue |-> <<>>, returnedBefore |-> {}]]
    /\ calls = <<>>
    /\ topic = <<>>
    /\ offsets = [g \in GroupIds |-> -1]
    /\ requests = <<>>

DefaultEnv == [KAFKA_ENABLE |-> "false", KAFKA_BROKERS |-> Undefined, KAFKA_CLIENT_ID |-> Undefined]

\* One gateway process, with every way the bridge can be configured.
Init ==
    /\ live = {"A"}
    /\ budget = [starts |-> MaxStarts, shutdowns |-> MaxShutdowns, calls |-> MaxCalls,
                 payloads |-> {EventQueued, EventUnserializable},
                 sites |-> [s \in Subscribers |-> {"A"}]]
    /\ \E e \in Environments :
          /\ e.KAFKA_CLIENT_ID = "gw-1"
          /\ env = [i \in Instances |-> IF i = "A" THEN e ELSE DefaultEnv]
    /\ InitBus

\* ------------------------------------------------- start: initializeKafka
\* initializeKafka up to its first await: the in-memory return, or
\* new Kafka(...), kafka.producer() and the call of producer.connect().
InitializeKafka(i) ==
    /\ Alive(i)
    /\ startPc[i] = "idle"
    /\ shutdownPc[i] = "idle"
    /\ startInfo[i].count < budget.starts
    /\ IF ~useKafka(i)
       THEN /\ startInfo' = [startInfo EXCEPT ![i] =
                               [count |-> @.count + 1, result |-> "in-memory", failedAt |-> "none"]]
            /\ handler' = [handler EXCEPT ![i] = IF @ = "unregistered" THEN "registered" ELSE @]
            /\ UNCHANGED <<startPc, conns>>
       ELSE /\ startInfo' = [startInfo EXCEPT ![i] =
                               [count |-> @.count + 1, result |-> "connecting", failedAt |-> "none"]]
            /\ startPc' = [startPc EXCEPT ![i] = "producer.connect"]
            /\ conns' = conns @@ (<<i, "producer", startInfo[i].count + 1>> :> NewConn(i, "producer"))
            /\ UNCHANGED handler
    /\ UNCHANGED <<live, budget, env, requests, busVars, shutdownPc, shutdownInfo, subs, calls, topic, offsets>>

\* await producer.connect() resolved: kafkaProducer = producer, then
\* kafka.consumer({ groupId }) and the call of consumer.connect().
ProducerConnected(i) ==
    /\ Alive(i)
    /\ startPc[i] = "producer.connect"
    /\ kafkaProducer' = [kafkaProducer EXCEPT ![i] = ProducerId(i)]
    /\ conns' = [conns EXCEPT ![ProducerId(i)].state = "open"]
                   @@ (ConsumerId(i) :> NewConn(i, "consumer"))
    /\ startPc' = [startPc EXCEPT ![i] = "consumer.connect"]
    /\ UNCHANGED <<live, budget, env, requests, kafkaConsumer, kafkaConsumerStarted, startInfo, shutdownPc,
                   shutdownInfo, handler, subs, calls, topic, offsets>>

\* await consumer.connect() resolved: kafkaConsumer = consumer, then the
\* call of consumer.subscribe({ topic, fromBeginning: false }).
ConsumerConnected(i) ==
    /\ Alive(i)
    /\ startPc[i] = "consumer.connect"
    /\ kafkaConsumer' = [kafkaConsumer EXCEPT ![i] = ConsumerId(i)]
    /\ conns' = [conns EXCEPT ![ConsumerId(i)].state = "open"]
    /\ startPc' = [startPc EXCEPT ![i] = "consumer.subscribe"]
    /\ UNCHANGED <<live, budget, env, requests, kafkaProducer, kafkaConsumerStarted, startInfo, shutdownPc,
                   shutdownInfo, handler, subs, calls, topic, offsets>>

\* await consumer.subscribe(...) resolved: the call of consumer.run(...).
ConsumerSubscribed(i) ==
    /\ Alive(i)
    /\ startPc[i] = "consumer.subscribe"
    /\ startPc' = [startPc EXCEPT ![i] = "consumer.run"]
    /\ UNCHANGED <<live, budget, env, requests, busVars, startInfo, shutdownPc, shutdownInfo, handler, conns,
                   subs, calls, topic, offsets>>

\* await consumer.run(...) resolved: the consumer has joined its group (a
\* group without a committed position starts at the tail of the topic) and
\* eachMessage is live; kafkaConsumerStarted = true; initializeKafka returns.
ConsumerRunning(i) ==
    /\ Alive(i)
    /\ startPc[i] = "consumer.run"
    /\ conns[ConsumerId(i)].state = "open"
    /\ conns' = [conns EXCEPT ![ConsumerId(i)].running = TRUE]
    /\ offsets' = [offsets EXCEPT ![GroupId(i)] = IF @ = -1 THEN Len(topic) ELSE @]
    /\ kafkaConsumerStarted' = [kafkaConsumerStarted EXCEPT ![i] = TRUE]
    /\ startPc' = [startPc EXCEPT ![i] = "idle"]
    /\ startInfo' = [startInfo EXCEPT ![i].result = "connected"]
    /\ handler' = [handler EXCEPT ![i] = IF @ = "unregistered" THEN "registered" ELSE @]
    /\ UNCHANGED <<live, budget, env, requests, kafkaProducer, kafkaConsumer, shutdownPc, shutdownInfo,
                   subs, calls, topic>>

\* A catch block that forgets to reset kafkaProducer.
CatchProducerRefKept(i) == kafkaProducer[i]

\* The reference the catch block of initializeKafka leaves in kafkaProducer.
CatchProducerRef(i) == Null

\* A catch block that starts the setup over with a new producer.
InitializeKafkaCatchRetry(i) ==
    /\ Alive(i)
    /\ startPc[i] # "idle"
    /\ kafkaProducer' = [kafkaProducer EXCEPT ![i] = Null]
    /\ conns' = [conns EXCEPT ![ProducerId(i)] = NewConn(i, "producer")]
    /\ startInfo' = [startInfo EXCEPT ![i].result = "failed", ![i].failedAt = startPc[i]]
    /\ startPc' = [startPc EXCEPT ![i] = "producer.connect"]
    /\ handler' = [handler EXCEPT ![i] = IF @ = "unregistered" THEN "registered" ELSE @]
    /\ UNCHANGED <<live, budget, env, requests, kafkaConsumer, kafkaConsumerStarted, shutdownPc, shutdownInfo,
                   subs, calls, topic, offsets>>

\* Any awaited step of the setup rejected: the catch block logs, sets
\* kafkaProducer = null, and initializeKafka returns normally.
InitializeKafkaCatch(i) ==
    /\ Alive(i)
    /\ startPc[i] # "idle"
    /\ kafkaProducer' = [kafkaProducer EXCEPT ![i] = CatchProducerRef(i)]
    /\ conns' = IF startPc[i] = "producer.connect"
                THEN [conns EXCEPT ![ProducerId(i)].state = "failed"]
                ELSE IF startPc[i] = "consumer.connect"
                THEN [conns EXCEPT ![ConsumerId(i)].state = "failed"]
                ELSE conns
    /\ startInfo' = [startInfo EXCEPT ![i].result = "failed", ![i].failedAt = startPc[i]]
    /\ startPc' = [startPc EXCEPT ![i] = "idle"]
    /\ handler' = [handler EXCEPT ![i] = IF @ = "unregistered" THEN "registered" ELSE @]
    /\ UNCHANGED <<live, budget, env, requests, kafkaConsumer, kafkaConsumerStarted, shutdownPc, shutdownInfo,
                   subs, calls, topic, offsets>>

\* ----------------------------------------------------- eventBus.shutdown
\* What the caller of shutdown() does once shutdown() has settled: the
\* termination handler goes on to httpServer.close only if the awaited
\* shutdown() resolved; a rejection ends the async handler there.
AfterShutdown(i, caller, result) ==
    IF caller = "signal"
    THEN IF result = "completed" THEN "closing" ELSE "rejected"
    ELSE handler[i]

\* shutdown() up to its first await: the guarded call of
\* kafkaProducer.disconnect(), else of kafkaConsumer.disconnect(), else return.
Shutdown(i, caller) ==
    /\ shutdownPc[i] = "idle"
    /\ startPc[i] = "idle"
    /\ IF kafkaProducer[i] # Null
       THEN /\ conns' = Disconnect(conns, kafkaProducer[i])
            /\ shutdownPc' = [shutdownPc EXCEPT ![i] = "producer.disconnect"]
            /\ shutdownInfo' = [shutdownInfo EXCEPT ![i] =
                  [count |-> @.count + 1, result |-> "pending", caller |-> caller,
                   target |-> kafkaProducer[i], failedAt |-> "none",
                   startResult |-> startInfo[i].result]]
            /\ handler' = [handler EXCEPT ![i] = IF caller = "signal" THEN "shutdown" ELSE @]
       ELSE IF kafkaConsumer[i] # Null
       THEN /\ conns' = Disconnect(conns, kafkaConsumer[i])
            /\ shutdownPc' = [shutdownPc EXCEPT ![i] = "consumer.disconnect"]
            /\ shutdownInfo' = [shutdownInfo EXCEPT ![i] =
                  [count |-> @.count + 1, result |-> "pending", caller |-> caller,
                   target |-> kafkaConsumer[i], failedAt |-> "none",
                   startResult |-> startInfo[i].result]]
            /\ handler' = [handler EXCEPT ![i] = IF caller = "signal" THEN "shutdown" ELSE @]
       ELSE /\ shutdownInfo' = [shutdownInfo EXCEPT ![i] =
                  [count |-> @.count + 1, result |-> "completed", caller |-> caller,
                   target |-> Null, failedAt |-> "none",
                   startResult |-> startInfo[i].result]]
            /\ handler' = [handler EXCEPT ![i] = AfterShutdown(i, caller, "completed")]
            /\ UNCHANGED <<conns, shutdownPc>>
    /\ UNCHANGED <<live, budget, env, requests, busVars, startPc, startInfo, subs, calls, topic, offsets>>

\* eventBus.shutdown() called through the bus interface.
ShutdownCall(i) ==
    /\ Alive(i)
    /\ shutdownInfo[i].count < budget.shutdowns
    /\ Shutdown(i, "api")

\* SIGINT / SIGTERM: the handler registered after `await eventBus.start()`
\* logs and calls `await eventBus.shutdown()`.
Signal(i) ==
    /\ Alive(i)
    /\ handler[i] = "registered"
    /\ Shutdown(i, "signal")

\* await kafkaProducer.disconnect() resolved; then the guarded call of
\* kafkaConsumer.disconnect(), else return.
ProducerDisconnected(i) ==
    /\ Alive(i)
    /\ shutdownPc[i] = "producer.disconnect"
    /\ LET closed == [conns EXCEPT ![shutdownInfo[i].target].state = "closed"]
       IN IF kafkaConsumer[i] # Null
          THEN /\ conns' = Disconnect(closed, kafkaConsumer[i])
               /\ shutdownPc' = [shutdownPc EXCEPT ![i] = "consumer.disconnect"]
               /\ shutdownInfo' = [shutdownInfo EXCEPT ![i].target = kafkaConsumer[i]]
               /\ UNCHANGED handler
          ELSE /\ conns' = closed
               /\ shutdownPc' = [shutdownPc EXCEPT ![i] = "idle"]
               /\ shutdownInfo' = [shutdownInfo EXCEPT ![i].result = "completed"]
               /\ handler' = [handler EXCEPT ![i] =
                                 AfterShutdown(i, shutdownInfo[i].caller, "completed")]
    /\ UNCHANGED <<live, budget, env, requests, busVars, startPc, startInfo, subs, calls, topic, offsets>>

\* await kafkaConsumer.disconnect() resolved: the consumer has left its group
\* and its connection is closed; shutdown() returns.
ConsumerDisconnected(i) ==
    /\ Alive(i)
    /\ shutdownPc[i] = "consumer.disconnect"
    /\ conns' = [conns EXCEPT ![shutdownInfo[i].target].state = "closed",
                              ![shutdownInfo[i].target].running = FALSE]
    /\ shutdownPc' = [shutdownPc EXCEPT ![i] = "idle"]
    /\ shutdownInfo' = [shutdownInfo EXCEPT ![i].result = "completed"]
    /\ handler' = [handler EXCEPT ![i] = AfterShutdown(i, shutdownInfo[i].caller, "completed")]
    /\ UNCHANGED <<live, budget, env, requests, busVars, startPc, startInfo, subs, calls, topic, offsets>>

\* An awaited disconnect() rejected: shutdown() has no try/catch, so the
\* rejection leaves shutdown() at that await and reaches its caller.
DisconnectRejected(i) ==
    /\ Alive(i)
    /\ shutdownPc[i] \in {"producer.disconnect", "consumer.disconnect"}
    /\ shutdownPc' = [shutdownPc EXCEPT ![i] = "idle"]
    /\ shutdownInfo' = [shutdownInfo EXCEPT ![i].result = "raised",
                                            ![i].failedAt = shutdownPc[i]]
    /\ handler' = [handler EXCEPT ![i] = AfterShutdown(i, shutdownInfo[i].caller, "raised")]
    /\ UNCHANGED <<live, budget, env, requests, busVars, startPc, startInfo, conns, subs, calls, topic, offsets>>

\* await new Promise(resolve => httpServer.close(resolve)) resolved; then
\* process.exit(0).
HttpServerClosed(i) ==
    /\ i \in live
    /\ handler[i] = "closing"
    /\ handler' = [handler EXCEPT ![i] = "exited"]
    /\ UNCHANGED <<live, budget, env, requests, busVars, startPc, startInfo, shutdownPc, shutdownInfo, conns,
                   subs, calls, topic, offsets>>

\* ------------------------------------------- subscribe: eventBus.asyncIterator
\* asyncIterator(): a new iterator on the local PubSub; it sees the events
\* published from now on.  returnedBefore is a history mark: the calls of
\* publishQueueUpdate that had already returned.
Subscribe(s, i) ==
    /\ Alive(i)
    /\ i \in budget.sites[s]
    /\ subs[s].status = "none"
    /\ \A t \in Subscribers :
          (budget.sites[t] = budget.sites[s] /\ SubscriberOrder[t] < SubscriberOrder[s])
              => subs[t].status # "none"
    /\ subs' = [subs EXCEPT ![s] =
                  [inst |-> i, status |-> "active", queue |-> <<>>,
                   returnedBefore |-> { c \in DOMAIN calls : calls[c].pc = "returned" }]]
    /\ UNCHANGED <<live, budget, env, requests, busVars, startPc, startInfo, shutdownPc, shutdownInfo, handler,
                   conns, calls, topic, offsets>>

\* The subscriber's connection closes: the iterator's return() removes it
\* from the PubSub.
Unsubscribe(s) ==
    /\ subs[s].status = "active"
    /\ Alive(subs[s].inst)
    /\ subs' = [subs EXCEPT ![s].status = "closed"]
    /\ UNCHANGED <<live, budget, env, requests, busVars, startPc, startInfo, shutdownPc, shutdownInfo, handler,
                   conns, calls, topic, offsets>>

\* ------------------------------------------- eventBus.publishQueueUpdate
\* A publishQueueUpdate that calls the broker first and publishes locally last.
PublishStepsSendFirst(i) ==
    (IF kafkaProducer[i] # Null THEN <<"send">> ELSE <<>>) \o <<"publishLocal">>

\* The statements of publishQueueUpdate up to its await, in program order:
\* 1. pubsub.publish, 2. if (kafkaProducer) the call of kafkaProducer.send.
PublishSteps(i) ==
    <<"publishLocal">> \o (IF kafkaProducer[i] # Null THEN <<"send">> ELSE <<>>)

\* A publishQueueUpdate without the try/catch around the send.
CatchSendMissing(failure) == [pc |-> "raised", outcome |-> failure]

\* How publishQueueUpdate ends when JSON.stringify or the awaited send
\* raised inside its try block: the catch logs and the call returns.
CatchSend(failure) == [pc |-> "returned", outcome |-> failure]

\* publishQueueUpdate(eventPayload) up to its await (or to its return when
\* nothing is awaited).  log, subsAtCall, remoteSubs, startResult,
\* shutdownResult (of the last shutdown) and shutdownOf (what start() had
\* given when that shutdown was called) are history marks of the call.
PublishQueueUpdateCall(i, payload) ==
    /\ Alive(i)
    /\ Len(calls) < budget.calls
    /\ LET c == Len(calls) + 1
           steps == PublishSteps(i)
           has(step) == \E n \in DOMAIN steps : steps[n] = step
           text == JSONstringify(payload)
           base == [inst |-> i, payload |-> payload, log |-> steps,
                    subsAtCall |-> ActiveSubs(i), remoteSubs |-> RemoteSubs(i),
                    startResult |-> startInfo[i].result,
                    shutdownResult |-> shutdownInfo[i].result,
                    shutdownOf |-> shutdownInfo[i].startResult,
                    producer |-> Null, value |-> Thrown,
                    pc |-> "returned", outcome |-> "local-only"]
       IN /\ subs' = IF has("publishLocal")
                     THEN PubsubPublish(subs, i, payload, c, "publish")
                     ELSE subs
          /\ calls' = Append(calls,
                IF ~has("send") THEN base
                ELSE IF text = Thrown
                THEN [base EXCEPT !.pc = CatchSend("stringify-raised").pc,
                                  !.outcome = CatchSend("stringify-raised").outcome]
                ELSE [base EXCEPT !.producer = kafkaProducer[i], !.value = text,
                                  !.pc = "sending", !.outcome = "pending"])
    /\ UNCHANGED <<live, budget, env, busVars, startPc, startInfo, shutdownPc, shutdownInfo, handler,
                   conns, topic, offsets>>

\* eventBus.publishQueueUpdate(eventPayload) called through the bus interface.
PublishQueueUpdate(i, payload) ==
    /\ PublishQueueUpdateCall(i, payload)
    /\ UNCHANGED requests

\* await kafkaProducer.send(...) resolved: the broker has appended the
\* message to the topic; the call logs and returns.  `call` and `from` are
\* history marks of the message.
SendResolved(c) ==
    /\ c \in DOMAIN calls
    /\ calls[c].pc = "sending"
    /\ Alive(calls[c].inst)
    /\ conns[calls[c].producer].state = "open"
    /\ topic' = Append(topic, [value |-> calls[c].value, call |-> c, from |-> calls[c].inst])
    /\ calls' = [calls EXCEPT ![c].pc = "returned", ![c].outcome = "sent"]
    /\ UNCHANGED <<live, budget, env, requests, busVars, startPc, startInfo, shutdownPc, shutdownInfo, handler,
                   conns, subs, offsets>>

\* await kafkaProducer.send(...) rejected (transport error, producer
\* disconnected): caught inside publishQueueUpdate.
SendRejected(c) ==
    /\ c \in DOMAIN calls
    /\ calls[c].pc = "sending"
    /\ Alive(calls[c].inst)
    /\ calls' = [calls EXCEPT ![c].pc = CatchSend("send-rejected").pc,
                              ![c].outcome = CatchSend("send-rejected").outcome]
    /\ UNCHANGED <<live, budget, env, requests, busVars, startPc, startInfo, shutdownPc, shutdownInfo, handler,
                   conns, subs, topic, offsets>>

\* ------------------------------------------------ consumer.run eachMessage
\* The members of one consumer group share the group's position: the broker
\* hands every message of the topic to one running member of each group.

\* An eachMessage that drops a value this group has already consumed.
HandleMessageDedup(i, text) ==
    IF \/ text.kind = "novalue"
       \/ \E n \in 1..offsets[GroupId(i)] : topic[n].value = text
    THEN [raised |-> text.kind = "novalue", publish |-> FALSE, payload |-> <<>>]
    ELSE LET parsed == JSONparse(text)
         IN IF ~parsed.ok \/ parsed.kind = "null"
            THEN [raised |-> TRUE, publish |-> FALSE, payload |-> <<>>]
            ELSE [raised |-> FALSE, publish |-> TRUE, payload |-> parsed.value]

\* The try block of eachMessage: message.value.toString() raises on a message
\* without value, JSON.parse on text that is not JSON, and the read of
\* eventPayload.type on null; every other parsed value is published on the
\* local PubSub.
HandleMessage(i, text) ==
    IF text.kind = "novalue"
    THEN [raised |-> TRUE, publish |-> FALSE, payload |-> <<>>]
    ELSE LET parsed == JSONparse(text)
         IN IF ~parsed.ok \/ parsed.kind = "null"
            THEN [raised |-> TRUE, publish |-> FALSE, payload |-> <<>>]
            ELSE [raised |-> FALSE, publish |-> TRUE, payload |-> parsed.value]

\* The catch block of eachMessage logs the error; eachMessage returns
\* normally and the consumer goes on with the next message.
EachMessageCatch(C, k) == C

\* An eachMessage that hands what it received to the producer as well.
EachMessageForwards(i, message) ==
    IF kafkaProducer[i] # Null
    THEN <<[value |-> message.value, call |-> message.call, from |-> i]>>
    ELSE <<>>

\* What eachMessage sends to the broker: nothing; its only call is
\* pubsub.publish.
EachMessageSends(i, message) == <<>>

\* eachMessage for the next message of the group's position.
EachMessage(k) ==
    /\ k \in DOMAIN conns
    /\ conns[k].kind = "consumer"
    /\ conns[k].state = "open"
    /\ conns[k].running
    /\ Alive(conns[k].inst)
    /\ LET i == conns[k].inst
           g == GroupId(i)
       IN /\ offsets[g] >= 0
          /\ offsets[g] < Len(topic)
          /\ LET message == topic[offsets[g] + 1]
                 handled == HandleMessage(i, message.value)
             IN /\ subs' = IF handled.publish
                           THEN PubsubPublish(subs, i, handled.payload, message.call, "consumer")
                           ELSE subs
                /\ conns' = IF handled.raised THEN EachMessageCatch(conns, k) ELSE conns
                /\ topic' = topic \o EachMessageSends(i, message)
          /\ offsets' = [offsets EXCEPT ![g] = @ + 1]
    /\ UNCHANGED <<live, budget, env, requests, busVars, startPc, startInfo, shutdownPc, shutdownInfo, handler,
                   calls>>

\* ------------------------------------------------ gateway: resolvers.Mutation
\* The event a mutation handler builds: the handlers that publish right
\* after the mutation send the affected song, the handlers that refetch the
\* queue first send the queue with it.
EventType(name) ==
    IF name = "queueSong" THEN "SONG_QUEUED"
    ELSE IF name = "upvoteSong" THEN "SONG_UPVOTED" ELSE "SONG_DOWNVOTED"

GatewayEvent(variant, name) ==
    IF variant = "delta"
    THEN [type |-> EventType(name), songId |-> "song-1", timestamp |-> "t", user |-> "anonymous"]
    ELSE [type |-> EventType(name), queue |-> "queue", timestamp |-> "t",
          songId |-> "song-1", user |-> "anonymous"]

\* A handler that awaited the promise of publishQueueUpdate.
HandlerAwaitsPublish(callPc) == IF callPc = "sending" THEN "publishing" ELSE "returned"

\* eventBus.publishQueueUpdate(event) is called without await: the handler
\* goes on to its return statement wherever the call stands.
HandlerAfterPublish(callPc) == "returned"

\* The rest of a handler once it has the data for its event: build the
\* event, call publishQueueUpdate, return the item.  `calls` of the request
\* is a history mark: the calls of publishQueueUpdate it made.
PublishAndReturn(r) ==
    LET q == requests[r]
        c == Len(calls) + 1
    IN /\ PublishQueueUpdateCall(q.inst, GatewayEvent(q.variant, q.name))
       /\ requests' = [requests EXCEPT ![r].applied = TRUE,
                                       ![r].calls = Append(@, c),
                                       ![r].pc = HandlerAfterPublish(calls'[c].pc)]

\* A mutation request arrives: the handler calls fetchGraphQL with the
\* mutation and awaits it.  The server listens once eventBus.start() is done.
MutationRequest(i, name) ==
    /\ Alive(i)
    /\ startPc[i] = "idle"
    /\ startInfo[i].count > 0
    /\ Len(requests) < budget.requests
    /\ requests' = Append(requests, [inst |-> i, variant |-> budget.gateway, name |-> name,
                                     pc |-> "mutating", applied |-> FALSE, calls |-> <<>>])
    /\ UNCHANGED <<live, budget, env, busVars, startPc, startInfo, shutdownPc, shutdownInfo, handler,
                   conns, subs, calls, topic, offsets>>

\* The data service applied the mutation and fetchGraphQL returned its data.
MutationApplied(r) ==
    /\ r \in DOMAIN requests
    /\ requests[r].pc = "mutating"
    /\ Alive(requests[r].inst)
    /\ IF requests[r].variant = "delta"
       THEN PublishAndReturn(r)
       ELSE /\ requests' = [requests EXCEPT ![r].applied = TRUE, ![r].pc = "refetching"]
            /\ UNCHANGED <<live, budget, env, busVars, startPc, startInfo, shutdownPc, shutdownInfo,
                           handler, conns, subs, calls, topic, offsets>>

\* The data service answered with errors: fetchGraphQL throws and the
\* handler rejects.
MutationRejected(r) ==
    /\ r \in DOMAIN requests
    /\ requests[r].pc = "mutating"
    /\ Alive(requests[r].inst)
    /\ requests' = [requests EXCEPT ![r].pc = "failed"]
    /\ UNCHANGED <<live, budget, env, busVars, startPc, startInfo, shutdownPc, shutdownInfo, handler,
                   conns, subs, calls, topic, offsets>>

\* The queue query after the mutation returned the queue.
RefetchResolved(r) ==
    /\ r \in DOMAIN requests
    /\ requests[r].pc = "refetching"
    /\ Alive(requests[r].inst)
    /\ PublishAndReturn(r)

\* The queue query after the mutation failed: fetchGraphQL throws and the
\* handler rejects before it reaches publishQueueUpdate.
RefetchRejected(r) ==
    /\ r \in DOMAIN requests
    /\ requests[r].pc = "refetching"
    /\ Alive(requests[r].inst)
    /\ requests' = [requests EXCEPT ![r].pc = "failed"]
    /\ UNCHANGED <<live, budget, env, busVars, startPc, startInfo, shutdownPc, shutdownInfo, handler,
                   conns, subs, calls, topic, offsets>>

\* ------------------------------------------------- the topic's other writers
\* The topic is the broker's, not the bus's: any client of the broker can
\* write a message to it.  The history mark `call` of such a message is the
\* negated position it was written at.
ForeignSend(text) ==
    /\ Len(topic) < budget.topic
    /\ topic' = Append(topic, [value |-> text, call |-> 0 - (Len(topic) + 1), from |-> "foreign"])
    /\ UNCHANGED <<live, budget, env, requests, busVars, startPc, startInfo, shutdownPc, shutdownInfo, handler,
                   conns, subs, calls, offsets>>

\* At-least-once delivery: the broker hands a message of the topic to the
\* consumers once more, as a further message with the same value.
Redeliver(n) ==
    /\ n \in DOMAIN topic
    /\ Len(topic) < budget.topic
    /\ topic' = Append(topic, topic[n])
    /\ UNCHANGED <<live, budget, env, requests, busVars, startPc, startInfo, shutdownPc, shutdownInfo, handler,
                   conns, subs, calls, offsets>>

\* ---------------------------------------------------------- specification
Next ==
    \/ \E i \in Instances : InitializeKafka(i)
    \/ \E i \in Instances : ProducerConnected(i)
    \/ \E i \in Instances : ConsumerConnected(i)
    \/ \E i \in Instances : ConsumerSubscribed(i)
    \/ \E i \in Instances : ConsumerRunning(i)
    \/ \E i \in Instances : InitializeKafkaCatch(i)
    \/ \E i \in Instances : ShutdownCall(i)
    \/ \E i \in Instances : Signal(i)
    \/ \E i \in Instances : ProducerDisconnected(i)
    \/ \E i \in Instances : ConsumerDisconnected(i)
    \/ \E i \in Instances : DisconnectRejected(i)
    \/ \E i \in Instances : HttpServerClosed(i)
    \/ \E s \in Subscribers, i \in Instances : Subscribe(s, i)
    \/ \E s \in Subscribers : Unsubscribe(s)
    \/ \E i \in Instances, payload \in budget.payloads : PublishQueueUpdate(i, payload)
    \/ \E c \in DOMAIN calls : SendResolved(c)
    \/ \E c \in DOMAIN calls : SendRejected(c)
    \/ \E k \in DOMAIN conns : EachMessage(k)

Spec == Init /\ [][Next]_vars

\* Two gateway processes with bridging enabled on both, sharing the topic,
\* under every combination of client identities; the broker stays healthy.
MaxCallsTwo == 2

InitTwo ==
    /\ live = {"A", "B"}
    /\ budget = [starts |-> 1, shutdowns |-> 0, calls |-> MaxCallsTwo,
                 payloads |-> {EventQueued, EventUpvoted},
                 sites |-> [s \in Subscribers |-> IF s = "s1" THEN {"A"} ELSE {"B"}]]
    /\ env \in [Instances -> Environments]
    /\ \A i \in Instances : env[i].KAFKA_ENABLE = "true" /\ env[i].KAFKA_BROKERS # Undefined
    /\ <<env["A"].KAFKA_CLIENT_ID, env["B"].KAFKA_CLIENT_ID>> \in
          { <<Undefined, Undefined>>, <<"gw-1", "gw-1">>, <<"gw-1", "gw-2">>, <<Undefined, "gw-2">> }
    /\ InitBus

NextTwo ==
    \/ \E i \in Instances : InitializeKafka(i)
    \/ \E i \in Instances : ProducerConnected(i)
    \/ \E i \in Instances : ConsumerConnected(i)
    \/ \E i \in Instances : ConsumerSubscribed(i)
    \/ \E i \in Instances : ConsumerRunning(i)
    \/ \E s \in Subscribers, i \in Instances : Subscribe(s, i)
    \/ \E i \in Instances, payload \in budget.payloads : PublishQueueUpdate(i, payload)
    \/ \E c \in DOMAIN calls : SendResolved(c)
    \/ \E k \in DOMAIN conns : EachMessage(k)

SpecTwo == InitTwo /\ [][NextTwo]_vars

\* One bridged gateway process on a topic that other clients write to and
\* on which the broker may deliver a message more than once.
MaxCallsWire == 1
MaxTopic == 3

ForeignTexts == {Garbage, NoValue, NullText, NumberText}

InitWire ==
    /\ live = {"A"}
    /\ budget = [starts |-> 1, shutdowns |-> 0, calls |-> MaxCallsWire,
                 payloads |-> {EventQueued},
                 sites |-> [s \in Subscribers |-> {"A"}],
                 topic |-> MaxTopic]
    /\ env = [i \in Instances |->
                IF i = "A"
                THEN [KAFKA_ENABLE |-> "true", KAFKA_BROKERS |-> "broker:9092", KAFKA_CLIENT_ID |-> "gw-1"]
                ELSE DefaultEnv]
    /\ InitBus

NextWire ==
    \/ \E i \in Instances : InitializeKafka(i)
    \/ \E i \in Instances : ProducerConnected(i)
    \/ \E i \in Instances : ConsumerConnected(i)
    \/ \E i \in Instances : ConsumerSubscribed(i)
    \/ \E i \in Instances : ConsumerRunning(i)
    \/ \E s \in Subscribers, i \in Instances : Subscribe(s, i)
    \/ \E i \in Instances, payload \in budget.payloads : PublishQueueUpdate(i, payload)
    \/ \E c \in DOMAIN calls : SendResolved(c)
    \/ \E text \in ForeignTexts : ForeignSend(text)
    \/ \E n \in DOMAIN topic : Redeliver(n)
    \/ \E k \in DOMAIN conns : EachMessage(k)

SpecWire == InitWire /\ [][NextWire]_vars

\* One gateway process serving mutation requests, with either set of
\* handlers and every way the bridge can be configured.
MaxRequests == 2

InitGateway ==
    /\ live = {"A"}
    /\ \E variant \in {"delta", "snapshot"} :
          budget = [starts |-> 1, shutdowns |-> 0, calls |-> MaxRequests,
                    payloads |-> {EventQueued},
                    sites |-> [s \in Subscribers |-> {"A"}],
                    requests |-> MaxRequests, gateway |-> variant]
    /\ \E e \in Environments :
          /\ e.KAFKA_CLIENT_ID = "gw-1"
          /\ env = [i \in Instances |-> IF i = "A" THEN e ELSE DefaultEnv]
    /\ InitBus

NextGateway ==
    \/ \E i \in Instances : InitializeKafka(i)
    \/ \E i \in Instances : ProducerConnected(i)
    \/ \E i \in Instances : ConsumerConnected(i)
    \/ \E i \in Instances : ConsumerSubscribed(i)
    \/ \E i \in Instances : ConsumerRunning(i)
    \/ \E i \in Instances : InitializeKafkaCatch(i)
    \/ \E i \in Instances, name \in Mutations : MutationRequest(i, name)
    \/ \E r \in DOMAIN requests : MutationApplied(r)
    \/ \E r \in DOMAIN requests : MutationRejected(r)
    \/ \E r \in DOMAIN requests : RefetchResolved(r)
    \/ \E r \in DOMAIN requests : RefetchRejected(r)
    \/ \E c \in DOMAIN calls : SendResolved(c)
    \/ \E c \in DOMAIN calls : SendRejected(c)

SpecGateway == InitGateway /\ [][NextGateway]_vars

\* One bridged gateway process on a healthy broker whose application calls
\* start() more than once.
MaxRestarts == 2

InitRestart ==
    /\ live = {"A"}
    /\ budget = [starts |-> MaxRestarts, shutdowns |-> 1, calls |-> 1,
                 payloads |-> {EventQueued},
                 sites |-> [s \in Subscribers |-> {"A"}]]
    /\ env = [i \in Instances |->
                IF i = "A"
                THEN [KAFKA_ENABLE |-> "true", KAFKA_BROKERS |-> "broker:9092", KAFKA_CLIENT_ID |-> "gw-1"]
                ELSE DefaultEnv]
    /\ InitBus

NextRestart ==
    \/ \E i \in Instances : InitializeKafka(i)
    \/ \E i \in Instances : ProducerConnected(i)
    \/ \E i \in Instances : ConsumerConnected(i)
    \/ \E i \in Instances : ConsumerSubscribed(i)
    \/ \E i \in Instances : ConsumerRunning(i)
    \/ \E i \in Instances : ShutdownCall(i)
    \/ \E i \in Instances : ProducerDisconnected(i)
    \/ \E i \in Instances : ConsumerDisconnected(i)
    \/ \E s \in Subscribers, i \in Instances : Subscribe(s, i)
    \/ \E i \in Instances, payload \in budget.payloads : PublishQueueUpdate(i, payload)
    \/ \E c \in DOMAIN calls : SendResolved(c)
    \/ \E k \in DOMAIN conns : EachMessage(k)

SpecRestart == InitRestart /\ [][NextRestart]_vars

\* ----------------------------------------------------- claims: vocabulary
\* The deliveries subscriber s has observed, as payloads.
Observed(s) == [n \in DOMAIN subs[s].queue |-> subs[s].queue[n].envelope.queueUpdated]

\* How many times subscriber s was handed the payload of call c.
Receipts(s, c) == Cardinality({ n \in DOMAIN subs[s].queue : subs[s].queue[n].call = c })

\* Subscriber s was handed the payload of call c by the call's own local publish.
DeliveredLocally(s, c) ==
    \E n \in DOMAIN subs[s].queue :
        /\ subs[s].queue[n].call = c
        /\ subs[s].queue[n].via = "publish"
        /\ subs[s].queue[n].envelope.queueUpdated = calls[c].payload

SendFailed(c) == calls[c].outcome \in {"send-rejected", "stringify-raised"}

\* ------------------------------------------------------------------ C1
\* C1: one call publishQueueUpdate(P) hands P exactly once to every
\* subscriber that was registered before the call and has not unsubscribed,
\* in every bridge mode.
C1_ExactlyOnce ==
    \A c \in DOMAIN calls : \A s \in calls[c].subsAtCall :
        subs[s].status = "active" => Receipts(s, c) = 1

\* ------------------------------------------------------------------ C2
\* C2: every call publishes locally, the local publish comes before the start
\* of the broker send of the same call, and the subscribers registered at the
\* call have the payload whether or not a send follows.
C2_LocalBeforeSend ==
    \A c \in DOMAIN calls :
        LET log == calls[c].log
        IN /\ \E n \in DOMAIN log : log[n] = "publishLocal"
           /\ \A m \in DOMAIN log :
                 log[m] = "send" => \E n \in 1..(m - 1) : log[n] = "publishLocal"
           /\ \A s \in calls[c].subsAtCall : DeliveredLocally(s, c)

C2_Witness ==
    \E c \in DOMAIN calls :
        /\ calls[c].pc = "sending"
        /\ calls[c].subsAtCall # {}
        /\ \E d \in DOMAIN calls : calls[d].outcome = "local-only" /\ calls[d].subsAtCall # {}

\* ------------------------------------------------------------------ C3
\* C3: when the broker send of a call fails (rejected send, or payload that
\* does not serialize), the call has returned normally, the subscribers
\* registered at the call have the payload, and every later call still
\* publishes locally and does not raise.
C3_SendFailureSwallowed ==
    \A c \in DOMAIN calls :
        SendFailed(c) =>
            /\ calls[c].pc = "returned"
            /\ \A s \in calls[c].subsAtCall : DeliveredLocally(s, c)
            /\ \A d \in DOMAIN calls :
                  d > c => /\ calls[d].pc \in {"sending", "returned"}
                           /\ \A s \in calls[d].subsAtCall : DeliveredLocally(s, d)

C3_Witness ==
    \E c, d \in DOMAIN calls :
        /\ d > c
        /\ calls[c].outcome = "send-rejected"
        /\ calls[c].subsAtCall # {}
        /\ calls[d].outcome = "sent"
        /\ calls[d].subsAtCall # {}

\* ------------------------------------------------------------------ C4
\* C4: once a step of the broker setup has failed, start() has returned
\* normally with kafkaProducer unset, and every call of publishQueueUpdate
\* made after that publishes locally and starts no broker send.
C4_SetupFailureFallsBack ==
    /\ \A i \in live :
          startInfo[i].result = "failed" => startPc[i] = "idle" /\ kafkaProducer[i] = Null
    /\ \A c \in DOMAIN calls :
          calls[c].startResult = "failed" =>
              /\ \A n \in DOMAIN calls[c].log : calls[c].log[n] # "send"
              /\ calls[c].pc = "returned"
              /\ \A s \in calls[c].subsAtCall : DeliveredLocally(s, c)

C4_Witness ==
    \E c \in DOMAIN calls :
        /\ calls[c].startResult = "failed"
        /\ startInfo[calls[c].inst].failedAt = "consumer.subscribe"
        /\ calls[c].subsAtCall # {}

\* ------------------------------------------------------------------ C5
\* C5: once start() has failed and a shutdown() called after that has
\* completed, no broker connection of the instance is still open.
C5_NoLeakedConnection ==
    \A i \in live :
        ( /\ startInfo[i].result = "failed"
          /\ shutdownInfo[i].startResult = "failed"
          /\ shutdownInfo[i].result = "completed" )
        => \A k \in DOMAIN conns : conns[k].inst = i => conns[k].state # "open"

\* ------------------------------------------------------------------ C6
\* Nothing is on its way any more: no send is pending and every consumer
\* group has consumed the whole topic.
BrokerDrained ==
    /\ \A c \in DOMAIN calls : calls[c].pc = "returned"
    /\ \A i \in live : offsets[GroupId(i)] = Len(topic)

\* C6: with both instances bridged, once the broker has handed out everything
\* it holds, every payload sent by one instance has reached every subscriber
\* that was registered on the other (bridged) instance at the call, with the
\* same type and songId, whatever the client identities are.
C6_CrossInstanceDelivery ==
    \A c \in DOMAIN calls :
        (calls[c].outcome = "sent" /\ BrokerDrained) =>
            \A s \in calls[c].remoteSubs :
                \E n \in DOMAIN subs[s].queue :
                    LET got == subs[s].queue[n]
                    IN /\ got.call = c
                       /\ Get(got.envelope.queueUpdated, "type") = Get(calls[c].payload, "type")
                       /\ Get(got.envelope.queueUpdated, "songId") = Get(calls[c].payload, "songId")

\* ------------------------------------------------------------------ C7
\* C7: a subscriber never receives the payload of a call of
\* publishQueueUpdate that had returned before it registered.
C7_NoReplay ==
    \A s \in Subscribers : \A c \in subs[s].returnedBefore : Receipts(s, c) = 0

\* ------------------------------------------------------------------ C8
\* What a bus without bridge hands to subscriber s: the payloads of the calls
\* made while s was registered, in call order, once each.
LocalOnlyObserved(s) ==
    LET mine == SelectSeq([c \in DOMAIN calls |-> c], LAMBDA c : s \in calls[c].subsAtCall)
    IN [n \in DOMAIN mine |-> calls[mine[n]].payload]

\* C8: on a single instance every subscriber observes, with or without the
\* bridge, exactly the sequence a bus without bridge hands to it.
C8_SameAsLocalOnly ==
    \A s \in Subscribers : Observed(s) = LocalOnlyObserved(s)

\* ------------------------------------------------------------------ C9
\* C9: shutdown() never calls disconnect() on a connection that an earlier
\* shutdown() has already closed (and it completes without error in a bus that
\* was never started or whose start failed).
C9_ShutdownIdempotent ==
    /\ \A k \in DOMAIN conns : conns[k].released = 0
    /\ \A i \in live :
          (shutdownInfo[i].startResult \in {"none", "failed"} /\ shutdownInfo[i].failedAt = "none")
              => shutdownInfo[i].result # "raised"

\* ------------------------------------------------------------------ C10
\* C10: a failing disconnect does not stop shutdown(): after a failed producer
\* disconnect the consumer disconnect is still called, shutdown() does not
\* raise, and the termination handler is not cut short.
C10_ShutdownProceeds ==
    \A i \in live :
        /\ shutdownInfo[i].result # "raised"
        /\ handler[i] # "rejected"
        /\ (shutdownInfo[i].failedAt = "producer.disconnect" /\ kafkaConsumer[i] # Null)
              => conns[kafkaConsumer[i]].disconnects >= shutdownInfo[i].count

\* ------------------------------------------------------------------ C11
WellFormed(text) == text.kind = "object"

\* The queue elements a subscriber got from the consumer for topic message n.
FromMessage(s, n) ==
    { m \in DOMAIN subs[s].queue :
         subs[s].queue[m].via = "consumer" /\ subs[s].queue[m].call = topic[n].call }

\* C11: a malformed broker message (text that does not parse, a message
\* without value, a parsed value that is not a record) is skipped: nothing a
\* subscriber holds comes from such a message and the consumer keeps
\* running; a subscriber that got one message from the consumer also holds
\* every well-formed message the consumer has handled after it.
C11_MalformedSkipped ==
    /\ \A s \in Subscribers, n \in DOMAIN topic :
          ~WellFormed(topic[n].value) => FromMessage(s, n) = {}
    /\ \A i \in live :
          startInfo[i].result = "connected" => conns[ConsumerId(i)].running
    /\ \A s \in Subscribers, m \in DOMAIN topic, n \in DOMAIN topic :
          (/\ subs[s].status = "active"
           /\ m < n
           /\ n <= offsets[GroupId(subs[s].inst)]
           /\ WellFormed(topic[n].value)
           /\ FromMessage(s, m) # {})
              => FromMessage(s, n) # {}

\* ------------------------------------------------------------------ C12
Finished(r) == requests[r].pc \in {"returned", "failed"}

\* C12: a mutation handler publishes only after the data service has
\* applied its mutation, and a handler that has finished has called
\* publishQueueUpdate exactly once if its mutation was applied and not at
\* all if it was not.
C12_OnePublishPerAppliedMutation ==
    \A r \in DOMAIN requests :
       /\ Len(requests[r].calls) > 0 => requests[r].applied
       /\ Finished(r) => Len(requests[r].calls) = (IF requests[r].applied THEN 1 ELSE 0)

\* ------------------------------------------------------------------ C13
\* C13: the broker never stalls or fails a mutation: a handler that has
\* called publishQueueUpdate has returned its result to the client, whether
\* the send of that call is still pending, has resolved or has been rejected.
C13_BrokerNeverStallsMutation ==
    \A r \in DOMAIN requests :
       Len(requests[r].calls) > 0 => requests[r].pc = "returned"

\* One handler has returned while its send is still pending and another
\* one has returned although its send was rejected.
C13_Witness ==
    \E r1 \in DOMAIN requests, r2 \in DOMAIN requests :
       /\ requests[r1].pc = "returned" /\ Len(requests[r1].calls) = 1
       /\ calls[requests[r1].calls[1]].pc = "sending"
       /\ requests[r2].pc = "returned" /\ Len(requests[r2].calls) = 1
       /\ calls[requests[r2].calls[1]].outcome = "send-rejected"

\* ------------------------------------------------------------------ C14
\* What an element of a subscriber's queue was delivered for: the call it
\* stems from and the path it came by.
Key(s, n) == <<subs[s].queue[n].call, subs[s].queue[n].via>>

SameInstance(s, t) ==
    /\ subs[s].status # "none" /\ subs[t].status # "none"
    /\ subs[s].inst = subs[t].inst

\* C14: the subscribers of one instance see one order of events: two
\* deliveries that two subscribers both got are in the same relative order
\* in both queues, and a subscriber registered for two calls of
\* publishQueueUpdate sees the payload of the earlier call before it sees
\* the payload of the later one.
C14_SameTotalOrder ==
    /\ \A s \in Subscribers, t \in Subscribers :
          SameInstance(s, t) =>
             \A m1 \in DOMAIN subs[s].queue, m2 \in DOMAIN subs[s].queue,
                n1 \in DOMAIN subs[t].queue, n2 \in DOMAIN subs[t].queue :
                (m1 < m2 /\ Key(s, m1) = Key(t, n1) /\ Key(s, m2) = Key(t, n2)) => n1 < n2
    /\ \A s \in Subscribers, c1 \in DOMAIN calls, c2 \in DOMAIN calls :
          (c1 < c2 /\ s \in calls[c1].subsAtCall /\ s \in calls[c2].subsAtCall) =>
             \E m1 \in DOMAIN subs[s].queue :
                /\ subs[s].queue[m1].call = c1
                /\ \A m2 \in DOMAIN subs[s].queue : subs[s].queue[m2].call = c2 => m1 < m2

\* Two subscribers of one instance that both hold a local delivery and a
\* delivery of the consumer, and both were registered for two calls.
C14_Witness ==
    /\ \A s \in Subscribers :
          /\ \E n \in DOMAIN subs[s].queue : subs[s].queue[n].via = "consumer"
          /\ \E n \in DOMAIN subs[s].queue : subs[s].queue[n].via = "publish"
          /\ Len(calls) = 2 /\ s \in calls[1].subsAtCall /\ s \in calls[2].subsAtCall
    /\ subs["s1"].inst = subs["s2"].inst

\* ------------------------------------------------------------------ C15
\* The last element of the queue of s after a step was added by that step
\* for call c on path via.
Got(s, c, via) ==
    /\ Len(subs'[s].queue) = Len(subs[s].queue) + 1
    /\ subs'[s].queue[Len(subs'[s].queue)].call = c
    /\ subs'[s].queue[Len(subs'[s].queue)].via = via

\* C15: after a subscriber has unsubscribed no step gives it anything,
\* while every step that publishes locally (a call of publishQueueUpdate,
\* a message handled by the consumer) gives its payload to every subscriber
\* that is still registered on that instance.
C15_NoDeliveryAfterUnsubscribe ==
    [][ /\ \A s \in Subscribers : subs[s].status = "closed" => subs'[s] = subs[s]
        /\ \A c \in DOMAIN calls' :
              c \notin DOMAIN calls =>
                 \A s \in ActiveSubs(calls'[c].inst) : Got(s, c, "publish")
        /\ \A g \in GroupIds :
              (offsets[g] >= 0 /\ offsets'[g] = offsets[g] + 1
                 /\ WellFormed(topic[offsets'[g]].value)) =>
                 \E i \in live :
                    /\ GroupId(i) = g
                    /\ \A s \in ActiveSubs(i) : Got(s, topic[offsets'[g]].call, "consumer")
      ]_vars

\* s unsubscribed between two calls; t, still registered, holds the local
\* delivery and the consumer's delivery of the later call, s holds neither.
C15_Witness ==
    \E s \in Subscribers, t \in Subscribers, c0 \in DOMAIN calls, c \in DOMAIN calls :
       /\ c0 < c
       /\ subs[s].status = "closed" /\ subs[t].status = "active"
       /\ subs[s].inst = subs[t].inst
       /\ s \in calls[c0].subsAtCall /\ s \notin calls[c].subsAtCall
       /\ \A n \in DOMAIN subs[s].queue : subs[s].queue[n].call # c
       /\ \E n \in DOMAIN subs[t].queue :
             subs[t].queue[n].call = c /\ subs[t].queue[n].via = "publish"
       /\ \E n \in DOMAIN subs[t].queue :
             subs[t].queue[n].call = c /\ subs[t].queue[n].via = "consumer"

\* ------------------------------------------------------------------ C16
\* No connection of instance i is created or opened by the step.
NoConnectAttempt(i) ==
    \A k \in DOMAIN conns' :
       conns'[k].inst = i =>
          /\ k \in DOMAIN conns
          /\ conns'[k].state \in {"connecting", "open"} => conns'[k].state = conns[k].state

\* C16: the state of the bridge moves only from connecting to connected or
\* to failed; disabled never changes; and once the setup has failed no step
\* of the bus (a publish, a send that resolves or fails, a delivery, a
\* shutdown) changes the state, sets the producer or opens a connection:
\* only a further call of start() by the application begins a new attempt.
C16_FailedIsTerminal ==
    [][ \A i \in live :
           startInfo'[i].count = startInfo[i].count =>
              /\ startInfo[i].result \in {"in-memory", "connected", "failed"}
                    => startInfo'[i].result = startInfo[i].result
              /\ startInfo[i].result = "connecting"
                    => startInfo'[i].result \in {"connecting", "connected", "failed"}
              /\ startInfo[i].result \in {"in-memory", "failed"}
                    => /\ NoConnectAttempt(i)
                       /\ kafkaProducer'[i] = Null
                       /\ startPc'[i] = "idle"
      ]_vars

\* After a failed setup one call of publishQueueUpdate was made and the
\* send of an earlier call was rejected.
C16_Witness ==
    \E i \in live, c1 \in DOMAIN calls, c2 \in DOMAIN calls :
       /\ startInfo[i].result = "failed"
       /\ calls[c1].inst = i /\ calls[c1].outcome = "send-rejected"
       /\ calls[c2].inst = i /\ calls[c2].startResult = "failed"

\* ------------------------------------------------------------------ C17
BridgingDisabled(i) == env[i].KAFKA_ENABLE # "true" \/ env[i].KAFKA_BROKERS = Undefined

\* C17: with bridging disabled (the enable flag is not 'true' or no broker
\* is configured) no call of start, publishQueueUpdate or shutdown touches
\* the broker: no connection exists, no setup step is pending, no call has
\* sent, nothing of the instance is on the topic, no shutdown had anything
\* to disconnect, and both references are unset.
C17_DisabledTouchesNoBroker ==
    \A i \in live :
       BridgingDisabled(i) =>
          /\ \A k \in DOMAIN conns : conns[k].inst # i
          /\ startPc[i] = "idle" /\ shutdownPc[i] = "idle"
          /\ kafkaProducer[i] = Null /\ kafkaConsumer[i] = Null
          /\ shutdownInfo[i].target = Null
          /\ \A c \in DOMAIN calls :
                calls[c].inst = i =>
                   /\ calls[c].log = <<"publishLocal">>
                   /\ calls[c].producer = Null
                   /\ calls[c].outcome = "local-only"
          /\ \A n \in DOMAIN topic : topic[n].from # i

\* The enable flag is 'true' but no broker is configured; start() has
\* returned, a publish was made and a shutdown has completed.
C17_Witness ==
    \E i \in live :
       /\ env[i].KAFKA_ENABLE = "true" /\ env[i].KAFKA_BROKERS = Undefined
       /\ startInfo[i].result = "in-memory"
       /\ \E c \in DOMAIN calls : calls[c].inst = i /\ calls[c].startResult = "in-memory"
       /\ shutdownInfo[i].count > 0 /\ shutdownInfo[i].result = "completed"

\* ------------------------------------------------------------------ C18
\* Every element a subscriber holds, whichever path it came by, was
\* published on the one local topic in the one envelope.
SameEnvelope ==
    \A s \in Subscribers : \A n \in DOMAIN subs[s].queue :
       /\ subs[s].queue[n].trigger = IN_MEMORY_TOPIC
       /\ DOMAIN subs[s].queue[n].envelope = {"queueUpdated"}

Defined(p) == [k \in { f \in DOMAIN p : p[f] # Undefined } |-> p[k]]

Sends(c) == \E n \in DOMAIN calls[c].log : calls[c].log[n] = "send"

\* C19: publishQueueUpdate forwards to the broker only when the bridge is
\* fully established: every call that sent was made after start() had
\* returned with the producer connected and the consumer subscribed and
\* running, never while the setup was still under way.
C19_SendOnlyWhenEstablished ==
    \A c \in DOMAIN calls : Sends(c) => calls[c].startResult = "connected"

\* ------------------------------------------------------------------ C20
ViaConsumer(element) == element.via = "consumer"

\* A message whose value parses to something other than null.
Parses(message) == message.value.kind \in {"object", "number"}

CallsOf(seq) == [n \in DOMAIN seq |-> seq[n].call]

\* C20: no deduplication of inbound messages: what a registered subscriber
\* holds from the consumer is, one for one and in delivery order, the
\* messages the consumer has handled since the subscriber registered, each
\* as often as the broker delivered it, and each with the payload its text
\* parses to.
C20_NoDeduplication ==
    \A s \in Subscribers :
       subs[s].status = "active" =>
          LET off == offsets[GroupId(subs[s].inst)]
              got == SelectSeq(subs[s].queue, ViaConsumer)
          IN /\ off < 0 => got = <<>>
             /\ off >= 0 =>
                   \E a \in 0..off :
                      CallsOf(got) = CallsOf(SelectSeq(SubSeq(topic, a + 1, off), Parses))
             /\ \A n \in DOMAIN got : \A m \in DOMAIN topic :
                   (topic[m].call = got[n].call /\ WellFormed(topic[m].value)) =>
                      got[n].envelope.queueUpdated = JSONparse(topic[m].value).value

\* The broker delivered one serialized payload three times and a subscriber
\* holds it three times from the consumer.
C20_Witness ==
    \E s \in Subscribers :
       \E n1 \in DOMAIN subs[s].queue, n2 \in DOMAIN subs[s].queue, n3 \in DOMAIN subs[s].queue :
          /\ n1 < n2 /\ n2 < n3
          /\ \A n \in {n1, n2, n3} :
                /\ subs[s].queue[n].via = "consumer"
                /\ subs[s].queue[n].call = 1
                /\ subs[s].queue[n].envelope.queueUpdated = EventQueued

\* ------------------------------------------------------------------ C21
SentBy(i) == { n \in DOMAIN topic : topic[n].from = i }

CallsOn(i) == { c \in DOMAIN calls : calls[c].inst = i }

\* C21: no forwarding loop: what the consumer receives goes to the local
\* channel only, so the messages an instance has sent to the topic are at
\* most as many as the calls of publishQueueUpdate made on it, and each of
\* them is the one message of a call of its own.
C21_NoForwardingLoop ==
    \A i \in live :
       /\ Cardinality(SentBy(i)) <= Cardinality(CallsOn(i))
       /\ \A n \in SentBy(i) :
             /\ topic[n].call \in CallsOn(i)
             /\ \A m \in SentBy(i) : topic[m].call = topic[n].call => m = n

\* The consumer of an instance has handled every message of the topic, its
\* own two among them, both were published locally, and the topic holds
\* exactly those two.
C21_Witness ==
    \E i \in live :
       /\ Len(topic) = 2 /\ Cardinality(SentBy(i)) = 2
       /\ offsets[GroupId(i)] = 2
       /\ \E s \in Subscribers :
             Cardinality({ n \in DOMAIN subs[s].queue : subs[s].queue[n].via = "consumer" }) = 2

\* ------------------------------------------------------------------ C22
\* Call c was made on a bridged bus after shutdown() had completed.
AfterShutdownOfBridge(c) ==
    calls[c].shutdownOf = "connected" /\ calls[c].shutdownResult = "completed"

\* C22: a call of publishQueueUpdate made after shutdown() has completed on
\* a bridged bus delivers its payload to every registered subscriber, does
\* not raise, and attempts no send on the released producer.
C22_PublishAfterShutdown ==
    \A c \in DOMAIN calls :
       AfterShutdownOfBridge(c) =>
          /\ \A s \in calls[c].subsAtCall : DeliveredLocally(s, c)
          /\ calls[c].pc # "raised"
          /\ ~Sends(c)

\* ------------------------------------------------------------------ C23
OpenConns(i, kind) ==
    { k \in DOMAIN conns :
         conns[k].inst = i /\ conns[k].kind = kind /\ conns[k].state = "open" }

\* C23: whatever start() and shutdown() calls were made, an instance has at
\* most one open producer and at most one open consumer connection, and an
\* open connection is the one kafkaProducer / kafkaConsumer refers to.
C23_OneConnectionEach ==
    \A i \in live :
       /\ Cardinality(OpenConns(i, "producer")) <= 1
       /\ Cardinality(OpenConns(i, "consumer")) <= 1
       /\ \A k \in OpenConns(i, "producer") : kafkaProducer[i] = k
       /\ \A k \in OpenConns(i, "consumer") : kafkaConsumer[i] = k

====
